---------------------------- MODULE Spec2Model ----------------------------
(***************************************************************************)
(* Depth-bounded search with memoization over a 3x3 board packed in a      *)
(* 64-bit word, four bits per cell (src/src/main.rs).                      *)
(*                                                                         *)
(* A u64 word is a sequence of 16 nibbles, nibble i (bits 4i..4i+3) at     *)
(* index i+1.  The shifts and the bitwise operations of the source are     *)
(* computed on that representation; turn, total and the memo values are    *)
(* integers below 2^31.                                                    *)
(***************************************************************************)
EXTENDS Integers, Sequences, FiniteSets, TLC

VARIABLES
    inDepth,        \* the depth read from the first input line
    inBoard,        \* the nine integers read from the three rows, row-major
    pc,             \* main's position: "start", "search", "done"
    initial_state,  \* main's initial_state
    stack,          \* the dfs call stack, innermost frame last
    memo,           \* the memo HashMap: key word -> cached delta
    owner,          \* history: key word -> the <<state, turn>> that stored it
    total,          \* the accumulator *total
    output,         \* the lines main has printed on stdout
    exitCode,       \* the exit codes the process has ended with (none while it runs)
    hits,           \* history: how many lookups found their key in the memo
    permuted        \* history: some call was made out of the source's order

vars == <<inDepth, inBoard, pc, initial_state, stack, memo, owner, total,
          output, exitCode, hits, permuted>>

(***************************************************************************)
(* 64-bit words as 16 nibbles                                              *)
(***************************************************************************)
Nib == 0..15
WordIdx == 1..16

Bit(x, k) == (x \div (2^k)) % 2

NibOrTab ==
    [a \in Nib |-> [b \in Nib |->
        (IF Bit(a,0) + Bit(b,0) > 0 THEN 1 ELSE 0)
      + (IF Bit(a,1) + Bit(b,1) > 0 THEN 2 ELSE 0)
      + (IF Bit(a,2) + Bit(b,2) > 0 THEN 4 ELSE 0)
      + (IF Bit(a,3) + Bit(b,3) > 0 THEN 8 ELSE 0)]]

NibAndTab ==
    [a \in Nib |-> [b \in Nib |->
        Bit(a,0) * Bit(b,0) + 2 * Bit(a,1) * Bit(b,1)
      + 4 * Bit(a,2) * Bit(b,2) + 8 * Bit(a,3) * Bit(b,3)]]

ZeroWord == [i \in WordIdx |-> 0]

WordOr(a, b)  == [i \in WordIdx |-> NibOrTab[a[i]][b[i]]]
WordAnd(a, b) == [i \in WordIdx |-> NibAndTab[a[i]][b[i]]]
WordNot(a)    == [i \in WordIdx |-> 15 - a[i]]

\* The nibble of w at index i, zero outside the word.
NibAt(w, i) == IF i \in WordIdx THEN w[i] ELSE 0

\* w << n and w >> n for 0 <= n < 64, bits shifted out are lost.
ShlBits(w, n) ==
    LET q == n \div 4
        r == n % 4
    IN  [i \in WordIdx |->
            IF r = 0 THEN NibAt(w, i - q)
            ELSE ((NibAt(w, i - q) * (2^r)) % 16) + (NibAt(w, i - q - 1) \div (2^(4 - r)))]

ShrBits(w, n) ==
    LET q == n \div 4
        r == n % 4
    IN  [i \in WordIdx |->
            IF r = 0 THEN NibAt(w, i + q)
            ELSE (NibAt(w, i + q) \div (2^r)) + ((NibAt(w, i + q + 1) * (2^(4 - r))) % 16)]

\* The u64 holding the natural number n < 2^31.
FromInt(n) == [i \in WordIdx |-> IF i <= 8 THEN (n \div (16^(i - 1))) % 16 ELSE 0]

(***************************************************************************)
(* Constants of the board                                                  *)
(***************************************************************************)
SIZE == 3
MODULO == 2^30
MODULO_MASK == MODULO - 1
TURN_BITS == 6
CAP == 6

NEIGHBORS ==
    << <<1, 3>>, <<0, 2, 4>>, <<1, 5>>,
       <<0, 4, 6>>, <<1, 3, 5, 7>>, <<2, 4, 8>>,
       <<3, 7>>, <<4, 6, 8>>, <<5, 7>> >>

\* COMBOS[v_count + 1]: the index sets into the valid-neighbour arrays.
COMBOS ==
    << <<>>,
       <<>>,
       << <<0, 1>> >>,
       << <<0, 1>>, <<0, 2>>, <<1, 2>>, <<0, 1, 2>> >>,
       << <<0, 1>>, <<0, 2>>, <<0, 3>>, <<1, 2>>, <<1, 3>>, <<2, 3>>,
          <<0, 1, 2>>, <<0, 1, 3>>, <<0, 2, 3>>, <<1, 2, 3>>,
          <<0, 1, 2, 3>> >> >>

(***************************************************************************)
(* State manipulation                                                      *)
(***************************************************************************)
\* (state >> (idx << 2)) & 0xF
get_cell(state, idx) == NibAndTab[ShrBits(state, idx * 4)[1]][15]

\* (state & !(0xF << shift)) | ((value & 0xF) << shift)
set_cell(state, idx, value) ==
    LET shift == idx * 4
    IN  WordOr(WordAnd(state, WordNot(ShlBits(FromInt(15), shift))),
               ShlBits(FromInt(value % 16), shift))

\* 0x111111111
FullMask == [i \in WordIdx |-> IF i <= 9 THEN 1 ELSE 0]

is_full(state) ==
    LET any_bit_set ==
            WordOr(WordOr(state, ShrBits(state, 1)),
                   WordOr(ShrBits(state, 2), ShrBits(state, 3)))
    IN  WordAnd(any_bit_set, FullMask) = FullMask

\* (hash * 10 + d) & MODULO_MASK for hash < 2^30, d < 16, computed without
\* leaving 31 bits: hash = h1 * 2^26 + h0.
HashStep(hash, d) ==
    (((((hash \div (2^26)) * 10) % 16) * (2^26)) + ((hash % (2^26)) * 10) + d) % MODULO

RECURSIVE HashLoop(_, _, _)
HashLoop(s, hash, n) ==
    IF n = 0 THEN hash
    ELSE HashLoop(ShrBits(s, 4), HashStep(hash, NibAndTab[s[1]][15]), n - 1)

compute_hash(state) == HashLoop(state, 0, 9)

(***************************************************************************)
(* The move generator: the body of dfs's loop over the empty cells         *)
(***************************************************************************)
\* cells[i] = get_cell(state, i)
CellsOf(state) == [i \in 0..8 |-> get_cell(state, i)]

\* empty_mask: bit idx set iff cells[idx] == 0
RECURSIVE EmptyMaskFrom(_, _)
EmptyMaskFrom(cells, idx) ==
    IF idx > 8 THEN 0
    ELSE (IF cells[idx] = 0 THEN 2^idx ELSE 0) + EmptyMaskFrom(cells, idx + 1)

EmptyMask(cells) == EmptyMaskFrom(cells, 0)

\* Whether a neighbour's value enters valid_values.
IsValidNeighbor(v) == v # 0 /\ v # 6

\* The positions collected into valid_masks / valid_values, in NEIGHBORS order.
ValidPositions(cells, idx) ==
    SelectSeq(NEIGHBORS[idx + 1], LAMBDA pos : IsValidNeighbor(cells[pos]))

\* Two off-by-one variants of the cap test.
SumExceedsStrict(sum) == sum >= 6
SumExceedsLoose(sum) == sum > 7

\* if sum > 6
SumExceeds(sum) == sum > 6

\* The inner loop over a combo with its early break.
RECURSIVE ComboSumFrom(_, _, _, _)
ComboSumFrom(combo, values, k, sum) ==
    IF k > Len(combo) THEN sum
    ELSE LET s == sum + values[combo[k] + 1]
         IN  IF SumExceeds(s) THEN s ELSE ComboSumFrom(combo, values, k + 1, s)

ComboSum(combo, values) == ComboSumFrom(combo, values, 1, 0)

\* combo.iter().fold(0, |acc, &i| acc | valid_masks[i])
RECURSIVE ComboMaskFrom(_, _, _)
ComboMaskFrom(combo, masks, k) ==
    IF k > Len(combo) THEN ZeroWord
    ELSE WordOr(masks[combo[k] + 1], ComboMaskFrom(combo, masks, k + 1))

ComboMask(combo, masks) == ComboMaskFrom(combo, masks, 1)

\* (state & !mask) | (sum << idx_shift)
MergeState(state, mask, sum, idx) ==
    WordOr(WordAnd(state, WordNot(mask)), ShlBits(FromInt(sum), idx * 4))

\* The states dfs recurses into for the empty cell idx, in call order.
CellSuccessors(state, cells, idx) ==
    LET pos     == ValidPositions(cells, idx)
        v_count == Len(pos)
        valid_values == [k \in 1..v_count |-> cells[pos[k]]]
        valid_masks  == [k \in 1..v_count |-> ShlBits(FromInt(15), pos[k] * 4)]
    IN  IF v_count < 2
        THEN << set_cell(state, idx, 1) >>
        ELSE LET combos == COMBOS[v_count + 1]
                 kept   == SelectSeq(combos,
                              LAMBDA c : ~SumExceeds(ComboSum(c, valid_values)))
             IN  IF Len(kept) = 0
                 THEN << set_cell(state, idx, 1) >>
                 ELSE [k \in 1..Len(kept) |->
                         MergeState(state, ComboMask(kept[k], valid_masks),
                                    ComboSum(kept[k], valid_values), idx)]

\* One round of the while loop, for the cell idx when its bit is in empty_mask.
ForCell(state, cells, empty_mask, idx) ==
    IF Bit(empty_mask, idx) = 1 THEN CellSuccessors(state, cells, idx) ELSE <<>>

\* Every state the while loop of one dfs frame recurses into, in call order.
\* The loop takes idx = empty_mask.trailing_zeros() and clears that bit until
\* the mask is zero: it visits the set bits of empty_mask in ascending order.
Successors(state) ==
    LET cells == CellsOf(state)
        empty_mask == EmptyMask(cells)
    IN  ForCell(state, cells, empty_mask, 0) \o ForCell(state, cells, empty_mask, 1)
        \o ForCell(state, cells, empty_mask, 2) \o ForCell(state, cells, empty_mask, 3)
        \o ForCell(state, cells, empty_mask, 4) \o ForCell(state, cells, empty_mask, 5)
        \o ForCell(state, cells, empty_mask, 6) \o ForCell(state, cells, empty_mask, 7)
        \o ForCell(state, cells, empty_mask, 8)


(***************************************************************************)
(* dfs: the arithmetic on the accumulator and the memo key                 *)
(***************************************************************************)
\* The addition without its mask.
AddNoMask(t, v) == t + v

\* (*total + v) & MODULO_MASK
AddMod(t, v) == (t + v) % MODULO

\* The cached value as the accumulator itself, and as the unmasked difference.
DeltaAbs(t, start) == t
DeltaNoMask(t, start) == t + MODULO - start

\* (*total + MODULO - start) & MODULO_MASK
Delta(t, start) == (t + MODULO - start) % MODULO

\* The key with the state shifted the wrong way, and without the turn.
MemoKeyShr(state, turn) == WordOr(ShrBits(state, TURN_BITS), FromInt(turn))
MemoKeyNoTurn(state, turn) == ShlBits(state, TURN_BITS)

\* (state << TURN_BITS) | turn
MemoKey(state, turn) == WordOr(ShlBits(state, TURN_BITS), FromInt(turn))

\* The terminal test without the full-board test.
IsTerminalDepthOnly(state, turn, max_depth) == turn = max_depth

\* turn == max_depth || is_full(state)
IsTerminal(state, turn, max_depth) == turn = max_depth \/ is_full(state)

\* The recursive call made without advancing the turn.
SameTurn(turn) == turn

\* The turn argument of the recursive calls.
NextTurn(turn) == turn + 1

EmptyMemo == [k \in {} |-> 0]

\* A dfs frame that has just been called.
Enter(state, turn) ==
    [state |-> state, turn |-> turn, phase |-> "enter",
     start |-> 0, key |-> ZeroWord, succ |-> <<>>, next |-> 1]

Top == stack[Len(stack)]
Pop == SubSeq(stack, 1, Len(stack) - 1)

(***************************************************************************)
(* main                                                                    *)
(***************************************************************************)
\* The nested loops of main: initial_state = set_cell(initial_state, i*SIZE+j, row[j])
RECURSIVE ParseFrom(_, _, _)
ParseFrom(board, state, n) ==
    IF n = SIZE * SIZE THEN state
    ELSE ParseFrom(board, set_cell(state, n, board[n + 1]), n + 1)

ParseBoard(board) == ParseFrom(board, ZeroWord, 0)

\* main up to and including its call of dfs(initial_state, 0, depth, ..).
MainRead ==
    /\ pc = "start"
    /\ initial_state' = ParseBoard(inBoard)
    /\ memo' = EmptyMemo
    /\ owner' = EmptyMemo
    /\ total' = 0
    /\ stack' = << Enter(ParseBoard(inBoard), 0) >>
    /\ pc' = "search"
    /\ UNCHANGED <<inDepth, inBoard, output, exitCode, hits, permuted>>

\* println!("{}", total); Ok(())
MainPrint ==
    /\ pc = "search"
    /\ stack = <<>>
    /\ output' = Append(output, total)
    /\ exitCode' = <<0>>
    /\ pc' = "done"
    /\ UNCHANGED <<inDepth, inBoard, initial_state, stack, memo, owner, total, hits, permuted>>

(***************************************************************************)
(* dfs, one action per branch of a frame                                   *)
(***************************************************************************)
InFrame(phase) == pc = "search" /\ stack # <<>> /\ Top.phase = phase

\* The depth bound is reached or the board is full: add the hash, return.
DfsTerminal ==
    /\ InFrame("enter")
    /\ IsTerminal(Top.state, Top.turn, inDepth)
    /\ total' = AddMod(total, compute_hash(Top.state))
    /\ stack' = Pop
    /\ UNCHANGED <<inDepth, inBoard, pc, initial_state, memo, owner, output, exitCode,
                   hits, permuted>>

\* The key is in the memo: add the cached delta, return.
DfsHit ==
    /\ InFrame("enter")
    /\ ~IsTerminal(Top.state, Top.turn, inDepth)
    /\ MemoKey(Top.state, Top.turn) \in DOMAIN memo
    /\ total' = AddMod(total, memo[MemoKey(Top.state, Top.turn)])
    /\ stack' = Pop
    /\ hits' = hits + 1
    /\ UNCHANGED <<inDepth, inBoard, pc, initial_state, memo, owner, output, exitCode,
                   permuted>>

\* A miss: snapshot total and enter the loop over the empty cells.
DfsExpand ==
    /\ InFrame("enter")
    /\ ~IsTerminal(Top.state, Top.turn, inDepth)
    /\ MemoKey(Top.state, Top.turn) \notin DOMAIN memo
    /\ stack' = [stack EXCEPT ![Len(stack)] =
                    [@ EXCEPT !.phase = "loop",
                              !.start = total,
                              !.key = MemoKey(Top.state, Top.turn),
                              !.succ = Successors(Top.state),
                              !.next = 1]]
    /\ UNCHANGED <<inDepth, inBoard, pc, initial_state, memo, owner, total, output,
                   exitCode, hits, permuted>>

\* The next recursive call of the loop: dfs(new_state, turn + 1, ..).
DfsCall ==
    /\ InFrame("loop")
    /\ Top.next <= Len(Top.succ)
    /\ stack' = Append([stack EXCEPT ![Len(stack)].next = @ + 1],
                       Enter(Top.succ[Top.next], NextTurn(Top.turn)))
    /\ UNCHANGED <<inDepth, inBoard, pc, initial_state, memo, owner, total, output,
                   exitCode, hits, permuted>>

\* The same call with the successors taken in any order: the i-th remaining
\* successor is swapped to the front of the remaining ones and called.
SwapTo(seq, n, i) == [seq EXCEPT ![n] = seq[i], ![i] = seq[n]]

DfsCallAny ==
    /\ InFrame("loop")
    /\ \E i \in Top.next..Len(Top.succ) :
          /\ stack' = Append([stack EXCEPT ![Len(stack)] =
                                 [@ EXCEPT !.succ = SwapTo(Top.succ, Top.next, i),
                                           !.next = @ + 1]],
                             Enter(Top.succ[i], NextTurn(Top.turn)))
          /\ permuted' = (permuted \/ i # Top.next)
    /\ UNCHANGED <<inDepth, inBoard, pc, initial_state, memo, owner, total, output,
                   exitCode, hits>>

\* The loop is over: cache the delta of this frame, return.
DfsInsert ==
    /\ InFrame("loop")
    /\ Top.next > Len(Top.succ)
    /\ memo' = (Top.key :> Delta(total, Top.start)) @@ memo
    /\ owner' = (Top.key :> <<Top.state, Top.turn>>) @@ owner
    /\ stack' = Pop
    /\ UNCHANGED <<inDepth, inBoard, pc, initial_state, total, output, exitCode,
                   hits, permuted>>

Next ==
    \/ MainRead
    \/ DfsTerminal
    \/ DfsHit
    \/ DfsExpand
    \/ DfsCall
    \/ DfsInsert
    \/ MainPrint

(***************************************************************************)
(* Inputs                                                                  *)
(***************************************************************************)
MaxDepth == 3

\* Boards on which the search is run to every depth 0..MaxDepth.
DeepBoards ==
    { <<0, 0, 0,  0, 0, 0,  0, 0, 0>>,
      <<1, 2, 3,  4, 5, 6,  1, 2, 3>>,
      <<6, 6, 6,  6, 6, 6,  6, 0, 6>>,
      <<1, 2, 0,  0, 0, 0,  0, 0, 0>>,
      <<0, 1, 0,  1, 0, 2,  0, 3, 0>>,
      <<6, 5, 0,  5, 0, 1,  0, 1, 4>> }

StartWith(boards, depths) ==
    /\ inBoard \in boards
    /\ inDepth \in depths
    /\ pc = "start"
    /\ initial_state = ZeroWord
    /\ stack = <<>>
    /\ memo = EmptyMemo
    /\ owner = EmptyMemo
    /\ total = 0
    /\ output = <<>>
    /\ exitCode = <<>>
    /\ hits = 0
    /\ permuted = FALSE

Init == StartWith(DeepBoards, 0..MaxDepth)

Spec == Init /\ [][Next]_vars

(***************************************************************************)
(* Further inputs and specifications                                       *)
(***************************************************************************)
Abs(x) == IF x < 0 THEN -x ELSE x

\* The orthogonal neighbours of cell c on the 3x3 grid (index = row*3 + column).
Adjacent(c) ==
    {p \in 0..8 : Abs((p \div SIZE) - (c \div SIZE)) + Abs((p % SIZE) - (c % SIZE)) = 1}

\* Every board in which one cell is empty, its orthogonal neighbours hold any
\* values 0..CAP and the other cells are empty: all the inputs of the
\* generator for that cell.
GenBoards ==
    UNION { { [i \in 1..9 |-> IF (i - 1) \in Adjacent(c) THEN f[i - 1] ELSE 0] :
                f \in [Adjacent(c) -> 0..CAP] } : c \in 0..8 }

InitGen == StartWith(GenBoards, {1}) \/ StartWith(DeepBoards, 0..MaxDepth)

SpecGen == InitGen /\ [][Next]_vars

\* The search runs to completion: main is one thread and never blocks.
FairSpec == Init /\ [][Next]_vars /\ WF_vars(Next)

\* Input lines main can read that the input format excludes.
MalformedBoards ==
    { <<7, 0, 0,  0, 0, 0,  0, 0, 0>>,
      <<15, 15, 0,  0, 9, 0,  0, 0, 0>>,
      <<1, 2, 3,  4, 5, 6,  1, 2, 16>> }

NearFullBoards ==
    { <<6, 6, 6,  6, 6, 6,  6, 0, 6>>,
      <<1, 2, 3,  4, 5, 6,  1, 2, 3>> }

InitMain ==
    \/ StartWith(MalformedBoards, 1..2)
    \/ StartWith(NearFullBoards, {64, 65})
    \/ StartWith(DeepBoards, {MaxDepth})

SpecMain == InitMain /\ [][Next]_vars

\* The search with the successors of every frame taken in any order.
PermMaxDepth == 3

PermBoards ==
    { <<6, 6, 6,  6, 6, 6,  0, 0, 0>>,
      <<1, 0, 2,  6, 3, 6,  6, 6, 6>>,
      <<5, 0, 4,  0, 6, 6,  1, 6, 6>> }

NextPerm ==
    \/ MainRead
    \/ DfsTerminal
    \/ DfsHit
    \/ DfsExpand
    \/ DfsCallAny
    \/ DfsInsert
    \/ MainPrint

InitPerm == StartWith(PermBoards, 0..PermMaxDepth)

SpecPerm == InitPerm /\ [][NextPerm]_vars

(***************************************************************************)
(* The search without the memo, and the search as a function               *)
(***************************************************************************)
\* dfs with a memo in which every lookup misses: what it adds to total, i.e.
\* the sum modulo 2^30 of the hashes of the leaves below (state, turn).
RECURSIVE LeafSum(_, _, _), LeafSumOver(_, _, _, _)
LeafSum(state, turn, D) ==
    IF IsTerminal(state, turn, D) THEN compute_hash(state)
    ELSE LeafSumOver(Successors(state), 1, NextTurn(turn), D)

LeafSumOver(succ, k, turn, D) ==
    IF k > Len(succ) THEN 0
    ELSE (LeafSum(succ[k], turn, D) + LeafSumOver(succ, k + 1, turn, D)) % MODULO

\* dfs as a function of its arguments, successors in the source's order:
\* acc is [memo, total] before the call, the result is [memo, total] after.
Hit(acc, key) == [memo |-> acc.memo, total |-> AddMod(acc.total, acc.memo[key])]

Leaf(acc, state) == [memo |-> acc.memo, total |-> AddMod(acc.total, compute_hash(state))]

Store(after, key, start) ==
    [memo |-> (key :> Delta(after.total, start)) @@ after.memo, total |-> after.total]

RECURSIVE DfsFn(_, _, _, _), DfsLoop(_, _, _, _, _)
DfsFn(state, turn, D, acc) ==
    IF IsTerminal(state, turn, D) THEN Leaf(acc, state)
    ELSE IF MemoKey(state, turn) \in DOMAIN acc.memo THEN Hit(acc, MemoKey(state, turn))
    ELSE Store(DfsLoop(Successors(state), 1, NextTurn(turn), D, acc),
               MemoKey(state, turn), acc.total)

DfsLoop(succ, k, turn, D, acc) ==
    IF k > Len(succ) THEN acc
    ELSE DfsLoop(succ, k + 1, turn, D, DfsFn(succ[k], turn, D, acc))

(***************************************************************************)
(* Properties                                                              *)
(***************************************************************************)
SeqRange(seq) == {seq[k] : k \in 1..Len(seq)}

EmptyCells(state) == {c \in 0..8 : get_cell(state, c) = 0}

\* The top frame would hit the memo.
AtHit ==
    /\ InFrame("enter")
    /\ ~IsTerminal(Top.state, Top.turn, inDepth)
    /\ MemoKey(Top.state, Top.turn) \in DOMAIN memo

\* The top frame has just snapshotted total and is about to make its first call.
JustExpanded == InFrame("loop") /\ Top.next = 1

\* C1 (cache equivalence): the total printed by the search with the memo is
\* the total of the same search with every lookup missing, the sum modulo
\* 2^30 of the hashes of all leaves of the exploration tree.
C1_CacheEquivalence ==
    pc = "done" => output = << LeafSum(initial_state, 0, inDepth) >>

\* A finished search that answered lookups from the memo, with a result that
\* wrapped around 2^30 or not.
C1_Witness == pc = "done" /\ hits >= 10 /\ Cardinality(DOMAIN memo) >= 10

\* C2 (move generator against its reference).  For an empty cell c the
\* eligible neighbours E are the orthogonal neighbours holding 1..5; the
\* successors are one per subset of E of size >= 2 and sum <= 6 (members
\* cleared, c holding the sum), or the single placement of 1 when there is
\* no such subset.
RECURSIVE CellSum(_, _)
CellSum(state, C) ==
    IF C = {} THEN 0
    ELSE LET p == CHOOSE q \in C : TRUE
         IN  get_cell(state, p) + CellSum(state, C \ {p})

RefEligible(state, c) == {p \in Adjacent(c) : get_cell(state, p) \in 1..(CAP - 1)}

RefMerges(state, c) ==
    {C \in SUBSET RefEligible(state, c) : Cardinality(C) >= 2 /\ CellSum(state, C) <= CAP}

\* state with the cells of C cleared and cell c holding v.
RefPut(state, c, C, v) ==
    [i \in WordIdx |-> IF i - 1 = c THEN v ELSE IF (i - 1) \in C THEN 0 ELSE state[i]]

RefSuccessors(state, c) ==
    IF Cardinality(RefEligible(state, c)) < 2 \/ RefMerges(state, c) = {}
    THEN {RefPut(state, c, {}, 1)}
    ELSE {RefPut(state, c, C, CellSum(state, C)) : C \in RefMerges(state, c)}

\* The states a frame recurses into for cell c: those in which c is filled.
CalledFor(frame, c) == {s \in SeqRange(frame.succ) : get_cell(s, c) # 0}

RECURSIVE RefCount(_, _)
RefCount(state, cs) ==
    IF cs = {} THEN 0
    ELSE LET c == CHOOSE q \in cs : TRUE
         IN  Cardinality(RefSuccessors(state, c)) + RefCount(state, cs \ {c})

C2_GeneratorMatchesReference ==
    JustExpanded =>
        /\ \A c \in EmptyCells(Top.state) :
              /\ CalledFor(Top, c) = RefSuccessors(Top.state, c)
              /\ CalledFor(Top, c) # {}
              /\ RefMerges(Top.state, c) # {}
                    => RefPut(Top.state, c, {}, 1) \notin SeqRange(Top.succ)
        /\ Len(Top.succ) = RefCount(Top.state, EmptyCells(Top.state))

\* A frame with an empty cell that has two or more eligible neighbours none
\* of whose subsets fits under the cap: the fallback placement.
C2_Witness ==
    /\ JustExpanded
    /\ \E c \in EmptyCells(Top.state) :
          /\ Cardinality(RefEligible(Top.state, c)) >= 3
          /\ RefMerges(Top.state, c) = {}

\* C3 (cap invariant): every state passed to a dfs call has its nine cells
\* in 0..6.
C3_CapInvariant ==
    \A k \in 1..Len(stack) : \A i \in 0..8 : get_cell(stack[k].state, i) \in 0..CAP

\* A call on a state in which a merge has just produced a 6.
C3_Witness ==
    /\ Len(stack) >= 2
    /\ \E i \in 0..8 :
          /\ get_cell(Top.state, i) = CAP
          /\ get_cell(stack[Len(stack) - 1].state, i) = 0

\* C4 (terminal law): with depth 0, or with a full initial board, the output
\* is the base-10 fold of the nine cells modulo 2^30, no successor is called
\* and the memo stays empty.
RECURSIVE PolyFrom(_, _)
PolyFrom(board, i) ==
    IF i > 8 THEN 0 ELSE board[i + 1] * (10^(8 - i)) + PolyFrom(board, i + 1)

PolyFingerprint(board) == PolyFrom(board, 0) % MODULO

BoardFull(board) == \A i \in 1..9 : board[i] # 0

C4_TerminalLaw ==
    /\ (inDepth = 0 \/ BoardFull(inBoard)) =>
          /\ Len(stack) <= 1
          /\ memo = EmptyMemo
          /\ pc = "done" => output = << PolyFingerprint(inBoard) >>
    /\ (inDepth = 0 /\ inBoard = <<1, 2, 3, 4, 5, 6, 1, 2, 3>> /\ pc = "done")
          => output = <<123456123>>

\* A full board searched with a positive depth bound has printed its hash.
C4_Witness ==
    /\ pc = "done"
    /\ inDepth > 0
    /\ BoardFull(inBoard)
    /\ output = << PolyFingerprint(inBoard) >>

\* C5 (malformed input is rejected): a board with a cell outside 0..6 or a
\* depth of 64 or more never starts the search, prints nothing and ends with
\* a nonzero exit code.
Malformed == (\E i \in 1..9 : inBoard[i] \notin 0..CAP) \/ inDepth >= 2^TURN_BITS

C5_MalformedRejected ==
    Malformed =>
        /\ stack = <<>>
        /\ output = <<>>
        /\ \A k \in 1..Len(exitCode) : exitCode[k] # 0

\* C6 (range): total, every cached delta and the output are in [0, 2^30).
C6_Range ==
    /\ total \in 0..MODULO_MASK
    /\ \A k \in DOMAIN memo : memo[k] \in 0..MODULO_MASK
    /\ \A k \in 1..Len(output) : output[k] \in 0..MODULO_MASK

\* A frame during whose loop the accumulator has wrapped around 2^30.
C6_Witness == InFrame("loop") /\ total < Top.start /\ Top.next > 1

\* C7 (memo soundness), on every step: entries are never changed, a new
\* entry holds the leaf sum of the memo-less subtree of the (state, turn)
\* that stored it, and a hit adds to total what that subtree would add.
MemoStepSound ==
    /\ \A k \in DOMAIN memo : k \in DOMAIN memo' /\ memo'[k] = memo[k]
    /\ \A k \in (DOMAIN memo') \ (DOMAIN memo) :
          /\ k = MemoKey(owner'[k][1], owner'[k][2])
          /\ memo'[k] = LeafSum(owner'[k][1], owner'[k][2], inDepth)
    /\ hits' # hits =>
          total' = (total + LeafSum(Top.state, Top.turn, inDepth)) % MODULO

C7_MemoSoundness == [][MemoStepSound]_vars

\* A hit on a key whose delta was stored under another accumulator value.
C7_Witness ==
    /\ AtHit
    /\ total # 0
    /\ memo[MemoKey(Top.state, Top.turn)] # 0
    /\ Top.turn >= 2

\* C8 (termination and depth bound): the search ends; each frame's turn is
\* its caller's plus one, no turn exceeds the depth bound, and no
\* (state, turn) is on the stack twice.
DepthBound ==
    /\ \A k \in 1..Len(stack) : stack[k].turn = k - 1 /\ stack[k].turn <= inDepth
    /\ \A j, k \in 1..Len(stack) :
          j # k => <<stack[j].state, stack[j].turn>> # <<stack[k].state, stack[k].turn>>

C8_TerminatesWithinDepth == []DepthBound /\ <>(pc = "done")

\* A call at the depth bound on a state with more empty cells than its
\* caller's: a merge has emptied cells.
C8_Witness ==
    /\ Len(stack) >= 3
    /\ Top.turn = inDepth
    /\ Cardinality(EmptyCells(Top.state))
          > Cardinality(EmptyCells(stack[Len(stack) - 1].state))

\* C9 (key injectivity): states carry no bit at position 36 or above, keys
\* are formed with turn < D <= 63, a key decodes to the (state, turn) it was
\* formed from, and a hit returns the delta stored by the same (state, turn).
KeyState(key) == ShrBits(key, TURN_BITS)
KeyTurn(key) == WordAnd(key, FromInt(2^TURN_BITS - 1))

C9_KeyInjective ==
    /\ \A k \in 1..Len(stack) : \A i \in 10..16 : stack[k].state[i] = 0
    /\ \A k \in 1..Len(stack) :
          stack[k].phase = "loop" =>
              /\ stack[k].turn < inDepth /\ inDepth < 2^TURN_BITS
              /\ stack[k].key = MemoKey(stack[k].state, stack[k].turn)
              /\ KeyState(stack[k].key) = stack[k].state
              /\ KeyTurn(stack[k].key) = FromInt(stack[k].turn)
    /\ \A key \in DOMAIN memo :
          KeyState(key) = owner[key][1] /\ KeyTurn(key) = FromInt(owner[key][2])
    /\ AtHit => owner[MemoKey(Top.state, Top.turn)] = <<Top.state, Top.turn>>

\* A hit on a state whose last cell (bits 32..35) is filled.
C9_Witness == AtHit /\ get_cell(Top.state, 8) # 0 /\ Top.turn >= 2

\* C10 (order independence): with the successors of every frame taken in any
\* order, the final total and the final memo are those of the search in the
\* source's order.
C10_OrderIndependent ==
    pc = "done" =>
        LET fixed == DfsFn(initial_state, 0, inDepth, [memo |-> EmptyMemo, total |-> 0])
        IN  output = <<fixed.total>> /\ memo = fixed.memo

\* A search that made calls out of order, hit the memo and finished.
C10_Witness == pc = "done" /\ permuted /\ hits >= 1 /\ Cardinality(DOMAIN memo) >= 3

=============================================================================
